---- MODULE Spec2Model ----
(***************************************************************************)
(* CopyFile (src/CopyFile.go): open the source, Stat it, open/create/      *)
(* truncate the destination, stream the bytes, Chmod the destination,      *)
(* Sync it, run the deferred Closes, return.                               *)
(*                                                                         *)
(* The filesystem is a table of inodes plus a directory mapping paths to   *)
(* inodes, so that two paths can name the same file.  Every inode has the  *)
(* content seen by readers and the content that has reached stable         *)
(* storage.  The outcome of each system call is fixed by the environment   *)
(* (fault) when the call starts.                                           *)
(***************************************************************************)
EXTENDS Integers, Sequences, FiniteSets, TLC

VARIABLES fs, inodes, srcPath, dstPath, umask, bufSize, fault,
          pc, err, src, dst, srcInfo, defers,
          trace, failed, closes, closeErrs, written, synced, writeAfterSync,
          fs0, inodes0

inputs == <<srcPath, dstPath, umask, bufSize, fault, fs0, inodes0>>
vars == <<fs, inodes, srcPath, dstPath, umask, bufSize, fault,
          pc, err, src, dst, srcInfo, defers,
          trace, failed, closes, closeErrs, written, synced, writeAfterSync,
          fs0, inodes0>>

(* ---------------- bounds ---------------- *)
MaxLen == 3
MaxBuf == 2

(* ---------------- the environment ---------------- *)
Bytes == {1, 2}
Paths == {"source.txt", "destination.txt", "link.txt", "nodir/destination.txt"}
NoParent == {"nodir/destination.txt"}
NoFile == 0
InoIds == {1, 2, 3}
SrcModes == {{"ur", "uw", "gr", "or"}, {"ur", "uw", "gw"}}
DstMode == {"ur", "uw", "ux"}
Umasks == {{}, {"gw", "or"}}
OldDstContent == <<2, 1>>

SeqsUpTo(n) == UNION {[1..k -> Bytes] : k \in 0..n}

FreeInode == [used |-> FALSE, content |-> <<>>, mode |-> {}, durable |-> <<>>]
NewInode(c, m) == [used |-> TRUE, content |-> c, mode |-> m, durable |-> c]

Faults == {[step |-> s, at |-> 0] :
              s \in {"none", "open", "stat", "openfile", "chmod", "sync"}}
          \cup {[step |-> "copy", at |-> k] : k \in 0..MaxLen}

NoHandle == [state |-> "none", ino |-> NoFile, off |-> 0]
NoInfo == [valid |-> FALSE, mode |-> {}]

Min(a, b) == IF a < b THEN a ELSE b

(* ---------------- CopyFile's control flow ---------------- *)
ErrOf(step) ==
  CASE step = "open"     -> "SourceOpenError"
    [] step = "stat"     -> "MetadataError"
    [] step = "openfile" -> "DestinationOpenError"
    [] step = "copy"     -> "CopyError"
    [] step = "chmod"    -> "PermissionSetError"
    [] step = "sync"     -> "FlushError"

StepsDstFirst == <<"openfile", "open", "stat", "copy", "chmod", "sync">>

StepsStatLate == <<"open", "openfile", "stat", "copy", "chmod", "sync">>

\* the statements of CopyFile, in program order
Steps == <<"open", "stat", "openfile", "copy", "chmod", "sync">>

IndexOf(step) == CHOOSE i \in 1..Len(Steps) : Steps[i] = step

\* the statement that follows a step that succeeded
StepAfter(step) ==
  IF IndexOf(step) = Len(Steps) THEN "return" ELSE Steps[IndexOf(step) + 1]

OnErrorCopyIgnored(step) ==
  IF step = "copy" THEN "chmod" ELSE "return"

\* `if err != nil { return err }`: where control goes when a step failed
OnError(step) == "return"

PushDeferForgotten(stack, h) == stack

\* `defer h.Close()`: deferred calls run last-in first-out
PushDefer(stack, h) == <<h>> \o stack

(* ---------------- the system calls ---------------- *)
TruncateKept(content) == content

\* O_TRUNC
Truncate(content) == <<>>

\* the smallest unused inode
FreshIno(tbl) == CHOOSE i \in InoIds :
                    /\ ~tbl[i].used
                    /\ \A j \in InoIds : ~tbl[j].used => i <= j

\* creation honours the process's umask
CreateMode(mode, mask) == mode \ mask

AtEOFNever(off, len) == FALSE

\* Read reports io.EOF when the offset is at or past the end of the file
AtEOF(off, len) == off >= len

\* Write at an offset: overwrite, extending the file when needed
WriteAt(content, off, bytes) ==
  LET n == Len(bytes)
      head == SubSeq(content, 1, off)
      tail == SubSeq(content, off + n + 1, Len(content))
  IN head \o bytes \o tail

ChmodFileSkipped(tbl, ino, mode) == tbl

\* os.Chmod sets the mode of the file the path names
ChmodFile(tbl, ino, mode) == [tbl EXCEPT ![ino].mode = mode]

SyncFileSkipped(tbl, ino) == tbl

\* File.Sync commits the file's current content to stable storage
SyncFile(tbl, ino) == [tbl EXCEPT ![ino].durable = tbl[ino].content]

(* ---------------- initial states ---------------- *)
Init ==
  /\ srcPath \in Paths
  /\ dstPath \in Paths
  /\ umask \in Umasks
  /\ bufSize \in 1..MaxBuf
  /\ fault \in Faults
  /\ \E c \in SeqsUpTo(MaxLen), m \in SrcModes, dstExists \in BOOLEAN :
       /\ inodes = [i \in InoIds |->
                      IF i = 1 THEN NewInode(c, m)
                      ELSE IF i = 2 /\ dstExists
                           THEN NewInode(OldDstContent, DstMode)
                           ELSE FreeInode]
       /\ fs = [p \in Paths |->
                  IF p \in {"source.txt", "link.txt"} THEN 1
                  ELSE IF p = "destination.txt" /\ dstExists THEN 2
                       ELSE NoFile]
  /\ fs0 = fs
  /\ inodes0 = inodes
  /\ pc = Steps[1]
  /\ err = "nil"
  /\ src = NoHandle
  /\ dst = NoHandle
  /\ srcInfo = NoInfo
  /\ defers = <<>>
  /\ trace = <<>>
  /\ failed = <<>>
  /\ closes = [h \in {"src", "dst"} |-> 0]
  /\ closeErrs = 0
  /\ written = 0
  /\ synced = FALSE
  /\ writeAfterSync = FALSE

(* ---------------- the steps ---------------- *)
\* steps started, in order; the iterations of the copy loop count once
Started(step) ==
  IF trace # <<>> /\ trace[Len(trace)] = step THEN trace
  ELSE Append(trace, step)

\* src, err := os.Open(srcPath); defer src.Close()
OpenSrc ==
  /\ pc = "open"
  /\ trace' = Started("open")
  /\ IF fs[srcPath] = NoFile \/ fault.step = "open"
     THEN /\ err' = ErrOf("open")
          /\ failed' = Append(failed, "open")
          /\ pc' = OnError("open")
          /\ UNCHANGED <<src, defers>>
     ELSE /\ src' = [state |-> "open", ino |-> fs[srcPath], off |-> 0]
          /\ defers' = PushDefer(defers, "src")
          /\ pc' = StepAfter("open")
          /\ UNCHANGED <<err, failed>>
  /\ UNCHANGED <<fs, inodes, inputs, dst, srcInfo, closes, closeErrs,
                 written, synced, writeAfterSync>>

\* srcInfo, err := src.Stat()
Stat ==
  /\ pc = "stat"
  /\ trace' = Started("stat")
  /\ IF src.state # "open" \/ fault.step = "stat"
     THEN /\ err' = ErrOf("stat")
          /\ failed' = Append(failed, "stat")
          /\ pc' = OnError("stat")
          /\ UNCHANGED srcInfo
     ELSE /\ srcInfo' = [valid |-> TRUE, mode |-> inodes[src.ino].mode]
          /\ pc' = StepAfter("stat")
          /\ UNCHANGED <<err, failed>>
  /\ UNCHANGED <<fs, inodes, inputs, src, dst, defers, closes, closeErrs,
                 written, synced, writeAfterSync>>

\* dst, err := os.OpenFile(dstPath, O_CREATE|O_WRONLY|O_TRUNC, srcInfo.Mode())
\* defer dst.Close()
OpenDst ==
  /\ pc = "openfile"
  /\ trace' = Started("openfile")
  /\ IF dstPath \in NoParent \/ fault.step = "openfile"
     THEN /\ err' = ErrOf("openfile")
          /\ failed' = Append(failed, "openfile")
          /\ pc' = OnError("openfile")
          /\ UNCHANGED <<fs, inodes, dst, defers>>
     ELSE /\ IF fs[dstPath] = NoFile
             THEN LET i == FreshIno(inodes) IN
                  /\ fs' = [fs EXCEPT ![dstPath] = i]
                  /\ inodes' = [inodes EXCEPT
                        ![i] = [used |-> TRUE, content |-> <<>>,
                                mode |-> CreateMode(srcInfo.mode, umask),
                                durable |-> <<>>]]
                  /\ dst' = [state |-> "open", ino |-> i, off |-> 0]
             ELSE LET i == fs[dstPath] IN
                  /\ fs' = fs
                  /\ inodes' = [inodes EXCEPT
                        ![i].content = Truncate(inodes[i].content)]
                  /\ dst' = [state |-> "open", ino |-> i, off |-> 0]
          /\ defers' = PushDefer(defers, "dst")
          /\ pc' = StepAfter("openfile")
          /\ UNCHANGED <<err, failed>>
  /\ UNCHANGED <<inputs, src, srcInfo, closes, closeErrs,
                 written, synced, writeAfterSync>>

\* io.Copy(dst, src): one iteration of its read/write loop
CopyStep ==
  /\ pc = "copy"
  /\ trace' = Started("copy")
  /\ IF \/ src.state # "open"
        \/ dst.state # "open"
        \/ (fault.step = "copy" /\ src.off >= fault.at)
     THEN \* the Read (or the call itself) fails
          /\ err' = ErrOf("copy")
          /\ failed' = Append(failed, "copy")
          /\ pc' = OnError("copy")
          /\ UNCHANGED <<inodes, src, dst, written, writeAfterSync>>
     ELSE LET f == inodes[src.ino].content IN
          IF AtEOF(src.off, Len(f))
          THEN \* io.EOF ends the loop with a nil error
               /\ pc' = StepAfter("copy")
               /\ UNCHANGED <<inodes, src, dst, written, writeAfterSync,
                              err, failed>>
          ELSE \E n \in 1..Min(bufSize, Len(f) - src.off) :
                 LET chunk == SubSeq(f, src.off + 1, src.off + n)
                     nw == IF fault.step = "copy" /\ src.off + n > fault.at
                           THEN fault.at - src.off
                           ELSE n
                     out == SubSeq(chunk, 1, nw)
                 IN /\ inodes' = [inodes EXCEPT ![dst.ino].content =
                                    WriteAt(inodes[dst.ino].content, dst.off, out)]
                    /\ src' = [src EXCEPT !.off = src.off + n]
                    /\ dst' = [dst EXCEPT !.off = dst.off + nw]
                    /\ written' = written + nw
                    /\ writeAfterSync' = (writeAfterSync \/ (synced /\ nw > 0))
                    /\ IF nw < n
                       THEN \* the Write fails after nw bytes
                            /\ err' = ErrOf("copy")
                            /\ failed' = Append(failed, "copy")
                            /\ pc' = OnError("copy")
                       ELSE /\ pc' = "copy"
                            /\ UNCHANGED <<err, failed>>
  /\ UNCHANGED <<fs, inputs, srcInfo, defers, closes, closeErrs, synced>>

\* os.Chmod(dstPath, srcInfo.Mode())
Chmod ==
  /\ pc = "chmod"
  /\ trace' = Started("chmod")
  /\ IF fs[dstPath] = NoFile \/ fault.step = "chmod"
     THEN /\ err' = ErrOf("chmod")
          /\ failed' = Append(failed, "chmod")
          /\ pc' = OnError("chmod")
          /\ UNCHANGED inodes
     ELSE /\ inodes' = ChmodFile(inodes, fs[dstPath], srcInfo.mode)
          /\ pc' = StepAfter("chmod")
          /\ UNCHANGED <<err, failed>>
  /\ UNCHANGED <<fs, inputs, src, dst, srcInfo, defers, closes, closeErrs,
                 written, synced, writeAfterSync>>

\* dst.Sync()
Sync ==
  /\ pc = "sync"
  /\ trace' = Started("sync")
  /\ IF dst.state # "open" \/ fault.step = "sync"
     THEN /\ err' = ErrOf("sync")
          /\ failed' = Append(failed, "sync")
          /\ pc' = OnError("sync")
          /\ UNCHANGED <<inodes, synced>>
     ELSE /\ inodes' = SyncFile(inodes, dst.ino)
          /\ synced' = TRUE
          /\ pc' = StepAfter("sync")
          /\ UNCHANGED <<err, failed>>
  /\ UNCHANGED <<fs, inputs, src, dst, srcInfo, defers, closes, closeErrs,
                 written, writeAfterSync>>

\* a deferred Close runs; the error it returns is discarded
RunDefer ==
  /\ pc = "return"
  /\ defers # <<>>
  /\ LET h == Head(defers) IN
     /\ defers' = Tail(defers)
     /\ closes' = [closes EXCEPT ![h] = closes[h] + 1]
     /\ IF h = "src"
        THEN src' = [src EXCEPT !.state = "closed"] /\ UNCHANGED dst
        ELSE dst' = [dst EXCEPT !.state = "closed"] /\ UNCHANGED src
  /\ \E closeFails \in BOOLEAN :
       closeErrs' = closeErrs + (IF closeFails THEN 1 ELSE 0)
  /\ UNCHANGED <<fs, inodes, inputs, pc, err, srcInfo, trace, failed,
                 written, synced, writeAfterSync>>

\* CopyFile returns err to its caller
Return ==
  /\ pc = "return"
  /\ defers = <<>>
  /\ pc' = "done"
  /\ UNCHANGED <<fs, inodes, inputs, err, src, dst, srcInfo, defers, trace,
                 failed, closes, closeErrs, written, synced, writeAfterSync>>

Next ==
  \/ OpenSrc
  \/ Stat
  \/ OpenDst
  \/ CopyStep
  \/ Chmod
  \/ Sync
  \/ RunDefer
  \/ Return

Spec == Init /\ [][Next]_vars

\* the call is never suspended: a step that can run does run
LiveSpec == Init /\ [][Next]_vars /\ WF_vars(Next)

(* ---------------- properties ---------------- *)
Done == pc = "done"
Succeeded == pc = "done" /\ err = "nil"
SrcExisted == fs0[srcPath] # NoFile
SameFile == fs0[srcPath] # NoFile /\ fs0[srcPath] = fs0[dstPath]
ProgramOrder == <<"open", "stat", "openfile", "copy", "chmod", "sync">>
PosOf(step) == CHOOSE i \in 1..Len(ProgramOrder) : ProgramOrder[i] = step
NoRepeat(s) == \A i, j \in 1..Len(s) : s[i] = s[j] => i = j

\* C1: after a successful CopyFile the destination's content equals the
\* content the source had when the call started, for every pair of paths,
\* every source length and every buffer size.
C1_ContentIdentical ==
  Succeeded =>
    /\ SrcExisted
    /\ fs[dstPath] # NoFile
    /\ inodes[fs[dstPath]].content = inodes0[fs0[srcPath]].content

\* C2: after a successful CopyFile the destination's mode is the mode the
\* Stat captured, which is the source's mode, whatever the destination's
\* earlier mode and whatever the umask.
C2_ModeEqualsStat ==
  Succeeded =>
    /\ srcInfo.valid
    /\ srcInfo.mode = inodes0[fs0[srcPath]].mode
    /\ fs[dstPath] # NoFile
    /\ inodes[fs[dstPath]].mode = srcInfo.mode

C2_Witness ==
  /\ Succeeded
  /\ fs0[dstPath] = 2
  /\ inodes0[2].mode # srcInfo.mode
  /\ umask # {}

\* C3: success is returned only when all six steps ran and none failed, the
\* Sync came after the last write, nothing was written after it, and what is
\* on stable storage is the destination's content.
C3_SuccessIsDurable ==
  /\ synced => pc \in {"return", "done"}
  /\ Succeeded =>
       /\ failed = <<>>
       /\ trace = ProgramOrder
       /\ synced
       /\ ~writeAfterSync
       /\ inodes[dst.ino].durable = inodes[dst.ino].content

C3_Witness ==
  /\ Succeeded
  /\ written = MaxLen
  /\ fs0[dstPath] = 2

\* C4: when the source cannot be opened CopyFile returns the source-open
\* error after that one step, and the directory and every file are as they
\* were before the call.
C4_SourceOpenFailure ==
  (Done /\ (fs0[srcPath] = NoFile \/ fault.step = "open")) =>
    /\ err = "SourceOpenError"
    /\ trace = <<"open">>
    /\ fs = fs0
    /\ inodes = inodes0

C4_Witness ==
  /\ Done
  /\ err = "SourceOpenError"
  /\ fs0[srcPath] = NoFile
  /\ fs0[dstPath] = 2

\* C5: on every exit path the source file's content and mode are what they
\* were before the call, for every source path and destination path.
C5_SourceUntouched ==
  (Done /\ SrcExisted) =>
    /\ inodes[fs0[srcPath]].content = inodes0[fs0[srcPath]].content
    /\ inodes[fs0[srcPath]].mode = inodes0[fs0[srcPath]].mode

\* C6: at most one step fails; the steps that ran are exactly those up to
\* the failing one, each once; the value returned is that step's error, or
\* nil when none failed, whatever the deferred Closes returned.
C6_FirstErrorReturned ==
  Done =>
    /\ Len(failed) <= 1
    /\ NoRepeat(trace)
    /\ failed = <<>> => err = "nil" /\ trace = ProgramOrder
    /\ failed # <<>> =>
         /\ err = ErrOf(failed[1])
         /\ trace = SubSeq(ProgramOrder, 1, PosOf(failed[1]))

C6_Witness ==
  /\ Done
  /\ failed = <<"copy">>
  /\ written > 0
  /\ closeErrs = 2

\* C7: no handle is closed twice or closed without having been opened, and
\* when CopyFile has returned every handle it opened has been closed once.
C7_HandlesReleasedOnce ==
  /\ \A h \in {"src", "dst"} : closes[h] <= 1
  /\ closes["src"] = 1 <=> src.state = "closed"
  /\ closes["dst"] = 1 <=> dst.state = "closed"
  /\ Done => src.state \in {"none", "closed"} /\ dst.state \in {"none", "closed"}
  /\ Done => (src.state = "closed" <=> (trace # <<>> /\ failed # <<"open">>))
  /\ Done => (dst.state = "closed" <=>
                (Len(trace) >= 3 /\ failed \notin {<<"open">>, <<"stat">>, <<"openfile">>}))

C7_Witness ==
  /\ Done
  /\ err = "DestinationOpenError"
  /\ closes = [h \in {"src", "dst"} |-> IF h = "src" THEN 1 ELSE 0]

\* C8: in every reachable state, a destination handle exists or the
\* filesystem differs from its initial state only if the source has been
\* opened and its Stat has succeeded.
C8_DstAfterSrcInspected ==
  (dst.state # "none" \/ fs # fs0 \/ inodes # inodes0) =>
    (src.state # "none" /\ srcInfo.valid)

C8_Witness ==
  /\ pc = "copy"
  /\ dst.state = "open"
  /\ fs # fs0

\* C9: when the stream copy fails CopyFile returns the copy error, the
\* destination exists and holds exactly the bytes written so far, a prefix
\* of the source's content; a destination that existed keeps nothing of its
\* earlier content.
C9_PartialCopyKept ==
  (Done /\ failed = <<"copy">>) =>
    /\ err = "CopyError"
    /\ fs[dstPath] # NoFile
    /\ written <= Len(inodes0[fs0[srcPath]].content)
    /\ inodes[fs[dstPath]].content =
         SubSeq(inodes0[fs0[srcPath]].content, 1, written)

C9_Witness ==
  /\ Done
  /\ err = "CopyError"
  /\ fs0[dstPath] = 2
  /\ written = 1
  /\ Len(inodes0[fs0[srcPath]].content) = MaxLen

\* C10: every call returns: it reaches the end with nil or one error, each
\* step having run at most once, also when both paths name the same file.
C10_Terminates ==
  <>(/\ pc = "done"
     /\ err \in {"nil"} \cup {ErrOf(ProgramOrder[i]) : i \in 1..Len(ProgramOrder)}
     /\ Len(failed) <= 1
     /\ NoRepeat(trace))

C10_Witness ==
  /\ Done
  /\ SameFile
  /\ err = "nil"

====
